---- MODULE Spec2Model ----
(***************************************************************************)
(* StretchTime: the reminder scheduler (StretchTimer), the tray's due      *)
(* handler, the calendar availability aggregator (CalendarManager), and    *)
(* the two OAuth2/PKCE calendar clients (Google, Outlook).                 *)
(*                                                                         *)
(* Time.  Date.now() is modelled by the variable now.  One unit of model   *)
(* time is 30 000 ms, the cadence of the scheduler's setInterval, so that  *)
(* every duration of the program is a whole number of units:               *)
(*   30_000 ms (tick cadence)      = 1 unit                                *)
(*   60_000 ms (one minute, the token safety margin) = 2 units             *)
(*   120_000 ms (authenticate timeout)               = 4 units             *)
(*   5 * 60_000 ms (CACHE_TTL, POLL_INTERVAL)        = 10 units            *)
(* The clock starts at StartTime, which is later than every duration, as   *)
(* a wall clock in epoch milliseconds is: a field initialised to 0 (the    *)
(* cache's fetchedAt, a token's expiry, snoozedUntil) lies in the past.    *)
(***************************************************************************)
EXTENDS Integers, Sequences, FiniteSets, Bags, TLC

VARIABLES
    now,              \* Date.now()
    lastOp,           \* history: the operation the last step performed
    settings,         \* store.ts: the persisted AppSettings (tokens apart)
    \* ---- StretchTimer (google-calendar.ts:245-314) and TrayManager
    lastStretchTime,
    paused,
    snoozedUntil,
    intervalHandle,   \* "null", or the interval: "waiting" or "due" (its callback is due)
    dueChecks,        \* onStretchDue calls suspended at their await
    lastCheck,        \* history: what the periodic check of the last step read and emitted
    lastDueAt,        \* history: the instant of the last 'stretch-due' emission
    \* ---- CalendarManager (calendar.ts:10-100)
    cache,            \* [events, fetchedAt]
    pollHandle,       \* NoHandle, or the instant the polling interval's callback is due
    cycles,           \* the fetchEvents() calls suspended at an await, in the order made
    lastAnswer,       \* history: the isBusyOrMeetingSoon() call that returned in the last step
    \* ---- the calendar clients' tokens
    persisted,        \* store.ts: googleTokens, outlookTokens
    client,           \* each client's accessToken, refreshToken, expiryDate / expiresOn
    \* ---- one calendar client's calls (GoogleCalendarClient, OutlookCalendarClient)
    provider,         \* the provider whose client the calls below are made on
    authServer,       \* this.authServer: 0 (null), or the authenticate() call whose server it is
    auths,            \* the authenticate() calls: their promise, server and exchange
    evCalls,          \* the getUpcomingEvents() calls suspended at an await (a bag)
    lastCall          \* history: what the client's code did in the last step

timerState == <<lastStretchTime, paused, snoozedUntil, intervalHandle, dueChecks,
                lastDueAt>>

calState == <<cache, pollHandle, cycles>>

callState == <<provider, authServer, auths, evCalls>>

tokenState == <<persisted, client, callState>>

vars == <<now, lastOp, settings, timerState, lastCheck, calState, lastAnswer,
          tokenState, lastCall>>

---------------------------------------------------------------------------
(* Bounds of the model. *)

\* The first instant of the model's clock (see the module comment).
StartTime == 20
\* How many units the clock runs in the scheduler's specification.
TimerHorizon == 6
\* The largest reminder interval, snooze duration and pre-meeting buffer the
\* settings take, in minutes.
MaxMinutes == 2
\* How many due handlers may be suspended at their await at once.
MaxDueChecks == 2
\* How many events the cache holds in the busy-detection specification.
MaxEvents == 2
\* How many units the clock runs in the busy-detection specification.
BusyHorizon == 4
\* How many fetchEvents() calls may be suspended at once.
MaxCycles == 2
\* The aggregator's specification: the clock's step, and how many steps it runs.
CalStep == 5
CalSteps == 3
\* How long a token endpoint's access token lives ("expires_in"), in units.
TokenLifetime == 3
\* How many calls of one client, authenticate() and getUpcomingEvents() together,
\* may be unfinished at once.
MaxCalls == 2
\* How many units the clock runs in the client's specification.
ClientHorizon == 5

(* Program constants, in units of 30 000 ms. *)

\* 60_000 ms, the factor of every "minutes * 60_000".
UnitsPerMinute == 2
\* CACHE_TTL = 5 * 60_000
CACHE_TTL == 5 * UnitsPerMinute
\* POLL_INTERVAL = 5 * 60_000
POLL_INTERVAL == 5 * UnitsPerMinute
\* getValidAccessToken: "this.expiryDate - 60_000"
SAFETY_MARGIN == UnitsPerMinute
\* authenticate: setTimeout(..., 120_000)
AUTH_TIMEOUT == 2 * UnitsPerMinute

Never == -1
NoHandle == -1

MinuteChoices == 1..MaxMinutes

Providers == {"google", "outlook"}

---------------------------------------------------------------------------
(* store.ts *)

\* The defaults of store.ts, with the minutes scaled into the model's range.
DefaultSettings ==
    [ stretchIntervalMinutes  |-> MaxMinutes,
      preMeetingBufferMinutes |-> 1,
      snoozeDurationMinutes   |-> 1,
      calendarProviders       |-> [google |-> FALSE, outlook |-> FALSE],
      blockOnTentative        |-> TRUE,
      clientId                |-> [google |-> "", outlook |-> "id"] ]

\* googleTokens / outlookTokens undefined
NoTokens == [present |-> FALSE, access_token |-> "", refresh_token |-> "",
             expiry_date |-> 0]

\* No authenticate() call: a free place of auths.
NoAuth == [state |-> "free", server |-> "none", deadline |-> 0, exchanges |-> 0]

\* The fields of a client without tokens: '', '', 0
NoClientTokens == [accessToken |-> "", refreshToken |-> "", expiryDate |-> 0]

\* An exchange that assigns the fields and persists nothing.
storeTokens_InMemory(p, at, rt, exp) ==
    /\ client' = [client EXCEPT ![p] = [accessToken |-> at, refreshToken |-> rt,
                                        expiryDate |-> exp]]
    /\ persisted' = persisted

\* updateSettings({ googleTokens: {...} }) after this.accessToken, this.refreshToken
\* and this.expiryDate were assigned
storeTokens(p, at, rt, exp) ==
    /\ client' = [client EXCEPT ![p] = [accessToken |-> at, refreshToken |-> rt,
                                        expiryDate |-> exp]]
    /\ persisted' = [persisted EXCEPT ![p] = [present |-> TRUE, access_token |-> at,
                                              refresh_token |-> rt, expiry_date |-> exp]]

\* A disconnect() that leaves the persisted tokens where they are.
clearTokens_InMemory(p) ==
    /\ client' = [client EXCEPT ![p] = NoClientTokens]
    /\ persisted' = persisted

\* disconnect()
clearTokens(p) ==
    /\ client' = [client EXCEPT ![p] = NoClientTokens]
    /\ persisted' = [persisted EXCEPT ![p] = NoTokens]

---------------------------------------------------------------------------
(* The history of a step. *)

NoCheck == [lastStretchTime |-> 0, snoozedUntil |-> 0, prevDueAt |-> Never,
            inFlight |-> 0, emitted |-> FALSE]

NoAnswer == [stale |-> FALSE, fetches |-> 0, evaluated |-> <<>>, fetched |-> <<>>,
             bufferMinutes |-> 0, result |-> FALSE]

NoCall == [kind |-> "none"]

\* The history of a step that is neither a periodic check nor the return of an
\* isBusyOrMeetingSoon() call.
Did(op) ==
    /\ lastOp' = op
    /\ lastCheck' = NoCheck
    /\ lastAnswer' = NoAnswer
    /\ lastCall' = NoCall

---------------------------------------------------------------------------
(* StretchTimer and TrayManager.onStretchDue *)

\* ipcMain.handle('update-settings'): the settings window writes a partial update.
UpdateTimerSettings ==
    /\ \E i \in MinuteChoices, s \in MinuteChoices :
          /\ settings' = [settings EXCEPT !.stretchIntervalMinutes = i,
                                          !.snoozeDurationMinutes = s]
          /\ settings' # settings
    /\ Did("update-settings")
    /\ UNCHANGED <<now, timerState, calState, tokenState>>

\* A check that forgets the snooze.
tickSkips_IgnoresSnooze(nw, psd, snz) == psd

\* tick(): "if (this.paused) return; if (now < this.snoozedUntil) return;"
tickSkips(nw, psd, snz) == psd \/ nw < snz

\* A check that is due only after the interval, not at it.
tickDue_Strict(nw, last, minutes) == nw - last > minutes * UnitsPerMinute

\* tick(): "elapsed >= stretchIntervalMinutes * 60_000"
tickDue(nw, last, minutes) == nw - last >= minutes * UnitsPerMinute

\* snooze(): "Date.now() + snoozeDurationMinutes * 60_000"
snoozeEnd(nw, minutes) == nw + minutes * UnitsPerMinute

\* resetTimer()
resetTimer ==
    /\ lastStretchTime' = now
    /\ snoozedUntil' = 0

\* A due handler that resets the timer only after its await.
onStretchDue_ResetsAfterAwait ==
    /\ dueChecks' = dueChecks + 1
    /\ UNCHANGED <<lastStretchTime, snoozedUntil>>

\* TrayManager.onStretchDue, up to its await: resetTimer() is called first, then
\* isBusyOrMeetingSoon() is called and the handler is suspended on its result.
\* (What the call does to the CalendarManager is QueryCall, below.)
onStretchDue ==
    /\ resetTimer
    /\ dueChecks' = dueChecks + 1

\* start(), called by TrayManager.init(): setInterval(() => this.tick(), 30_000)
Start ==
    /\ intervalHandle = "null"
    /\ lastStretchTime' = now
    /\ paused' = FALSE
    /\ intervalHandle' = "waiting"
    /\ Did("start")
    /\ UNCHANGED <<now, settings, snoozedUntil, dueChecks, lastDueAt, calState,
                   tokenState>>

\* stop(): the tray's Quit
Stop ==
    /\ intervalHandle # "null"
    /\ intervalHandle' = "null"
    /\ Did("stop")
    /\ UNCHANGED <<now, settings, lastStretchTime, paused, snoozedUntil, dueChecks,
                   lastDueAt, calState, tokenState>>

\* pause()
Pause ==
    /\ paused' = TRUE
    /\ Did("pause")
    /\ UNCHANGED <<now, settings, lastStretchTime, snoozedUntil, intervalHandle,
                   dueChecks, lastDueAt, calState, tokenState>>

\* resume()
Resume ==
    /\ paused' = FALSE
    /\ lastStretchTime' = now
    /\ Did("resume")
    /\ UNCHANGED <<now, settings, snoozedUntil, intervalHandle, dueChecks, lastDueAt,
                   calState, tokenState>>

\* snooze()
Snooze ==
    /\ snoozedUntil' = snoozeEnd(now, settings.snoozeDurationMinutes)
    /\ Did("snooze")
    /\ UNCHANGED <<now, settings, lastStretchTime, paused, intervalHandle, dueChecks,
                   lastDueAt, calState, tokenState>>

\* resetTimer() called on its own (it is public)
ResetTimer ==
    /\ resetTimer
    /\ Did("resetTimer")
    /\ UNCHANGED <<now, settings, paused, intervalHandle, dueChecks, lastDueAt,
                   calState, tokenState>>

\* A remaining time that is not clamped at zero.
getRemainingMs_Unclamped ==
    IF paused THEN -1
    ELSE IF now < snoozedUntil THEN snoozedUntil - now
    ELSE settings.stretchIntervalMinutes * UnitsPerMinute - (now - lastStretchTime)

\* getRemainingMs()
getRemainingMs ==
    IF paused THEN -1
    ELSE IF now < snoozedUntil THEN snoozedUntil - now
    ELSE LET remaining == settings.stretchIntervalMinutes * UnitsPerMinute
                            - (now - lastStretchTime)
         IN  IF remaining > 0 THEN remaining ELSE 0

\* The interval callback: tick(), and, when it emits 'stretch-due', the listener
\* TrayManager.onStretchDue up to its await.
Tick ==
    /\ intervalHandle = "due"
    /\ intervalHandle' = "waiting"
    /\ LET emits == /\ ~tickSkips(now, paused, snoozedUntil)
                    /\ tickDue(now, lastStretchTime, settings.stretchIntervalMinutes)
       IN  /\ lastCheck' = [lastStretchTime |-> lastStretchTime,
                            snoozedUntil |-> snoozedUntil,
                            prevDueAt |-> lastDueAt, inFlight |-> dueChecks,
                            emitted |-> emits]
           /\ IF emits
                 THEN /\ dueChecks < MaxDueChecks
                      /\ onStretchDue
                      /\ lastDueAt' = now
                 ELSE UNCHANGED <<lastStretchTime, snoozedUntil, dueChecks, lastDueAt>>
    /\ lastOp' = "tick"
    /\ lastAnswer' = NoAnswer
    /\ lastCall' = NoCall
    /\ UNCHANGED <<now, settings, paused, calState, tokenState>>

\* TrayManager.onStretchDue after its await: isBusyOrMeetingSoon() has answered,
\* and showStretchNotification() is called unless it answered true.
SuppressionAnswered ==
    /\ dueChecks > 0
    /\ dueChecks' = dueChecks - 1
    /\ \E isBusy \in BOOLEAN : Did(IF isBusy THEN "suppressed" ELSE "notification")
    /\ UNCHANGED <<now, settings, lastStretchTime, paused, snoozedUntil,
                   intervalHandle, lastDueAt, calState, tokenState>>

\* Wall-clock time passes: 30 s, after which the interval's callback is due.
AdvanceTimer ==
    /\ now < StartTime + TimerHorizon
    /\ now' = now + 1
    /\ intervalHandle' = IF intervalHandle = "null" THEN "null" ELSE "due"
    /\ Did("advance")
    /\ UNCHANGED <<settings, lastStretchTime, paused, snoozedUntil, dueChecks,
                   lastDueAt, calState, tokenState>>

---------------------------------------------------------------------------
(* CalendarManager *)

\* A connection status read off the access token.
isConnected_AccessToken(p) == persisted[p].present /\ persisted[p].access_token # ""

\* isConnected(): "!!getSettings().googleTokens?.refresh_token" (and outlookTokens)
isConnected(p) == persisted[p].present /\ persisted[p].refresh_token # ""

\* A query that never refreshes the cache.
cacheIsStale_Never(nw, fetchedAt) == FALSE

\* isBusyOrMeetingSoon: "Date.now() - this.cache.fetchedAt > this.CACHE_TTL"
cacheIsStale(nw, fetchedAt) == nw - fetchedAt > CACHE_TTL

\* "eventStart <= now && eventEnd > now"
inMeeting(event, nw) == event.start <= nw /\ event.end > nw

\* A buffer window that is open at its end.
startsSoon_Open(event, nw, bufferEnd) == event.start > nw /\ event.start < bufferEnd

\* "eventStart > now && eventStart <= bufferEnd"
startsSoon(event, nw, bufferEnd) == event.start > nw /\ event.start <= bufferEnd

\* A loop that counts tentative events whatever the policy flag says.
RECURSIVE scanEvents_CountsTentative(_, _, _, _, _)
scanEvents_CountsTentative(events, i, nw, bufferEnd, blockOnTentative) ==
    IF i > Len(events) THEN FALSE
    ELSE LET event == events[i]
         IN  IF event.status = "free"
                THEN scanEvents_CountsTentative(events, i + 1, nw, bufferEnd,
                                                blockOnTentative)
             ELSE IF inMeeting(event, nw) THEN TRUE
             ELSE IF startsSoon(event, nw, bufferEnd) THEN TRUE
             ELSE scanEvents_CountsTentative(events, i + 1, nw, bufferEnd,
                                             blockOnTentative)

\* A loop that does not skip events marked free.
RECURSIVE scanEvents_CountsFree(_, _, _, _, _)
scanEvents_CountsFree(events, i, nw, bufferEnd, blockOnTentative) ==
    IF i > Len(events) THEN FALSE
    ELSE LET event == events[i]
         IN  IF ~blockOnTentative /\ event.status = "tentative"
                THEN scanEvents_CountsFree(events, i + 1, nw, bufferEnd,
                                           blockOnTentative)
             ELSE IF inMeeting(event, nw) THEN TRUE
             ELSE IF startsSoon(event, nw, bufferEnd) THEN TRUE
             ELSE scanEvents_CountsFree(events, i + 1, nw, bufferEnd, blockOnTentative)

\* The loop of isBusyOrMeetingSoon over this.cache.events, from index i on.
RECURSIVE scanEvents(_, _, _, _, _)
scanEvents(events, i, nw, bufferEnd, blockOnTentative) ==
    IF i > Len(events) THEN FALSE
    ELSE LET event == events[i]
         IN  IF ~blockOnTentative /\ event.status = "tentative"
                THEN scanEvents(events, i + 1, nw, bufferEnd, blockOnTentative)
             ELSE IF event.status = "free"
                THEN scanEvents(events, i + 1, nw, bufferEnd, blockOnTentative)
             ELSE IF inMeeting(event, nw) THEN TRUE
             ELSE IF startsSoon(event, nw, bufferEnd) THEN TRUE
             ELSE scanEvents(events, i + 1, nw, bufferEnd, blockOnTentative)

\* isBusyOrMeetingSoon after its refresh: settings and now are read, the events scanned.
evaluateBusy(events, bufferMinutes) ==
    scanEvents(events, 1, now, now + bufferMinutes * UnitsPerMinute,
               settings.blockOnTentative)

\* What a provider's events endpoint may answer: the items of the response, no
\* meeting or one meeting of one minute (Google's may be cancelled).
ResponseItems(p) ==
    LET item(d, st) == [start |-> StartTime + d, end |-> StartTime + d + UnitsPerMinute,
                        status |-> st]
    IN  IF p = "google"
           THEN {<<>>, <<item(1, "confirmed")>>, <<item(1, "cancelled")>>}
           ELSE {<<>>, <<item(CalStep + 1, "busy")>>}

\* A client that reads the items of a response whatever its status.
upcomingEvents_IgnoresStatus(p, outcome, items) ==
    IF outcome = "throw" THEN <<>>
    ELSE IF p = "google" THEN SelectSeq(items, LAMBDA e : e.status # "cancelled")
    ELSE items

\* getUpcomingEvents(), its result: the response's items normalised (Google's
\* cancelled events filtered out), or [] when the response is not ok or when the
\* request or the token refresh threw.
upcomingEvents(p, outcome, items) ==
    IF outcome # "ok" THEN <<>>
    ELSE IF p = "google" THEN SelectSeq(items, LAMBDA e : e.status # "cancelled")
    ELSE items

\* fetchEvents(), the second provider: "settings.calendarProviders.outlook &&
\* this.outlookClient.isConnected()", settings being those read when the cycle began.
enterOutlook(c) ==
    IF c.outlook /\ isConnected("outlook")
       THEN [c EXCEPT !.stage = "outlook", !.asked = @ \cup {"outlook"}]
       ELSE [c EXCEPT !.stage = "done"]

\* A cycle that asks Google whenever it is connected, enabled or not.
enterGoogle_IgnoresFlag(c) ==
    IF isConnected("google")
       THEN [c EXCEPT !.stage = "google", !.asked = @ \cup {"google"}]
       ELSE enterOutlook(c)

\* fetchEvents(), the first provider: "settings.calendarProviders.google &&
\* this.googleClient.isConnected()".
enterGoogle(c) ==
    IF settings.calendarProviders.google /\ isConnected("google")
       THEN [c EXCEPT !.stage = "google", !.asked = @ \cup {"google"}]
       ELSE enterOutlook(c)

\* fetchEvents() called: the cycle as it stands at its first await, or done.
\* query: the call is isBusyOrMeetingSoon's, with this bufferMinutes.
\* History: stale, the cache was older than CACHE_TTL when the query was made;
\* overtaken, a fetchEvents() called later has already ended; eligible, the
\* providers enabled and connected when the cycle began; asked, the providers whose
\* getUpcomingEvents() the cycle has called; failed, those whose call met a
\* response that was not ok or threw; returned, what each call returned.
beginCycle(query, bufferMinutes) ==
    enterGoogle([query |-> query, bufferMinutes |-> bufferMinutes,
                 stale |-> query /\ now - cache.fetchedAt > 5 * UnitsPerMinute,
                 outlook |-> settings.calendarProviders.outlook,
                 stage |-> "start", allEvents |-> <<>>, overtaken |-> FALSE,
                 eligible |-> {p \in Providers :
                                 settings.calendarProviders[p] /\ isConnected(p)},
                 asked |-> {}, failed |-> {},
                 returned |-> [p \in Providers |-> <<>>]])

\* The history of a fetch cycle that has ended.
cycleEnded(c) ==
    [kind |-> "cycle", eligible |-> c.eligible, asked |-> c.asked,
     failed |-> c.failed, returned |-> c.returned]

\* What isBusyOrMeetingSoon returns, after its own fetch cycle c.
answerAfter(c) ==
    [stale |-> c.stale, fetches |-> 1,
     evaluated |-> c.allEvents, fetched |-> c.allEvents,
     bufferMinutes |-> c.bufferMinutes,
     result |-> evaluateBusy(c.allEvents, c.bufferMinutes)]

\* The suspended cycles once the i-th has ended: it is removed, and those called
\* before it are overtaken. (i = Len + 1: a cycle that ended without suspending.)
withoutCycle(i) ==
    [j \in 1..(i - 1) |-> [cycles[j] EXCEPT !.overtaken = TRUE]]
        \o SubSeq(cycles, i + 1, Len(cycles))

\* The fetchEvents() call at place i (Len + 1: a call just made) moves on to r: it
\* is suspended at a provider's call, or it ends with
\* "this.cache = { events: allEvents, fetchedAt: Date.now() }", and then the
\* isBusyOrMeetingSoon() that awaited it evaluates the cache.
proceed(i, r) ==
    /\ cycles' = IF r.stage = "done" THEN withoutCycle(i)
                 ELSE IF i > Len(cycles) THEN Append(cycles, r)
                 ELSE [cycles EXCEPT ![i] = r]
    /\ cache' = IF r.stage = "done"
                   THEN [events |-> r.allEvents, fetchedAt |-> now]
                   ELSE cache
    /\ lastCheck' = NoCheck
    /\ lastCall' = IF r.stage = "done" THEN cycleEnded(r) ELSE NoCall
    /\ lastOp' = IF r.stage # "done" THEN "fetching"
                  ELSE IF r.query THEN "answer" ELSE "published"
    /\ lastAnswer' = IF r.stage = "done" /\ r.query THEN answerAfter(r) ELSE NoAnswer

\* startPolling(): one fetchEvents() at once, and setInterval(..., POLL_INTERVAL).
\* TrayManager.init() is its one caller, right after construction.
StartPolling ==
    /\ lastOp = "init"
    /\ pollHandle' = now + POLL_INTERVAL
    /\ proceed(Len(cycles) + 1, beginCycle(FALSE, 0))
    /\ UNCHANGED <<now, settings, timerState, tokenState>>

\* stopPolling()
StopPolling ==
    /\ pollHandle # NoHandle
    /\ pollHandle' = NoHandle
    /\ Did("stopPolling")
    /\ UNCHANGED <<now, settings, timerState, cache, cycles, tokenState>>

\* A timer that fires once (setTimeout).
nextPoll_Once(nw) == NoHandle

\* setInterval: after a callback the next one is due POLL_INTERVAL later.
nextPoll(nw) == nw + POLL_INTERVAL

\* The polling interval's callback: fetchEvents()
Poll ==
    /\ pollHandle # NoHandle
    /\ now >= pollHandle
    /\ Len(cycles) < MaxCycles
    /\ pollHandle' = nextPoll(now)
    /\ proceed(Len(cycles) + 1, beginCycle(FALSE, 0))
    /\ UNCHANGED <<now, settings, timerState, tokenState>>

\* isBusyOrMeetingSoon(bufferMinutes), called by TrayManager.onStretchDue with
\* settings.preMeetingBufferMinutes: a stale cache is refreshed first.
QueryCall ==
    LET bufferMinutes == settings.preMeetingBufferMinutes
    IN  IF cacheIsStale(now, cache.fetchedAt)
           THEN /\ Len(cycles) < MaxCycles
                /\ proceed(Len(cycles) + 1, beginCycle(TRUE, bufferMinutes))
                /\ UNCHANGED <<now, settings, timerState, pollHandle, tokenState>>
           ELSE /\ lastOp' = "answer"
                /\ lastCheck' = NoCheck
                /\ lastCall' = NoCall
                /\ lastAnswer' = [stale |-> now - cache.fetchedAt > 5 * UnitsPerMinute,
                                  fetches |-> 0, evaluated |-> cache.events,
                                  fetched |-> <<>>, bufferMinutes |-> bufferMinutes,
                                  result |-> evaluateBusy(cache.events, bufferMinutes)]
                /\ UNCHANGED <<now, settings, timerState, calState, tokenState>>

\* A provider's getUpcomingEvents() returns to the fetchEvents() that awaits it.
ProviderReturns ==
    \E i \in 1..Len(cycles), outcome \in {"ok", "http-error", "throw"} :
      \E items \in ResponseItems(cycles[i].stage) :
        LET c == cycles[i]
            events == upcomingEvents(c.stage, outcome, items)
            got == [c EXCEPT !.allEvents = @ \o events,
                             !.returned[c.stage] = events,
                             !.failed = IF outcome = "ok" THEN @ ELSE @ \cup {c.stage}]
        IN  /\ outcome = "throw" => items = <<>>
            /\ proceed(i, IF c.stage = "google" THEN enterOutlook(got)
                                                ELSE [got EXCEPT !.stage = "done"])
            /\ UNCHANGED <<now, settings, timerState, pollHandle, tokenState>>

\* ipcMain.handle('disconnect-google' / 'disconnect-outlook'), when it changes
\* anything.
DisconnectProvider(p) ==
    /\ persisted[p] # NoTokens \/ client[p] # NoClientTokens \/ settings.calendarProviders[p]
    /\ clearTokens(p)
    /\ settings' = [settings EXCEPT !.calendarProviders[p] = FALSE]
    /\ lastOp' = "disconnect"
    /\ lastCheck' = NoCheck /\ lastAnswer' = NoAnswer
    /\ lastCall' = [kind |-> "disconnect", provider |-> p,
                    before |-> [client |-> client, persisted |-> persisted]]
    /\ UNCHANGED <<now, timerState, calState, callState>>

\* ipcMain.handle('update-settings'): a provider's checkbox
ToggleProvider(p) ==
    /\ settings' = [settings EXCEPT !.calendarProviders[p] = ~@]
    /\ Did("update-settings")
    /\ UNCHANGED <<now, timerState, calState, tokenState>>

\* ipcMain.handle('update-settings'): the buffer and the tentative policy
UpdateBusySettings ==
    /\ \E b \in MinuteChoices, t \in BOOLEAN :
          /\ settings' = [settings EXCEPT !.preMeetingBufferMinutes = b,
                                          !.blockOnTentative = t]
          /\ settings' # settings
    /\ Did("update-settings")
    /\ UNCHANGED <<now, timerState, calState, tokenState>>

\* Wall-clock time passes, in the aggregator's specification.
AdvanceCal ==
    /\ now < StartTime + CalSteps * CalStep
    /\ now' = now + CalStep
    /\ Did("advance")
    /\ UNCHANGED <<settings, timerState, calState, tokenState>>

\* TrayManager.init(): "this.timer.start()" and "this.calendarManager.startPolling()"
\* in one turn, right after construction.
TrayInit ==
    /\ lastOp = "init"
    /\ intervalHandle = "null"
    /\ lastStretchTime' = now
    /\ paused' = FALSE
    /\ intervalHandle' = "waiting"
    /\ pollHandle' = now + POLL_INTERVAL
    /\ proceed(Len(cycles) + 1, beginCycle(FALSE, 0))
    /\ UNCHANGED <<now, settings, snoozedUntil, dueChecks, lastDueAt, tokenState>>

\* The tray's Quit: "this.timer.stop(); this.calendarManager.stopPolling();
\* app.quit()", the one caller of stop() and of stopPolling().
Quit ==
    /\ intervalHandle # "null" \/ pollHandle # NoHandle
    /\ intervalHandle' = "null"
    /\ pollHandle' = NoHandle
    /\ Did("quit")
    /\ UNCHANGED <<now, settings, lastStretchTime, paused, snoozedUntil, dueChecks,
                   lastDueAt, cache, cycles, tokenState>>

\* Wall-clock time passes, in the specification of the two intervals: CalStep
\* units with no callback run (the machine sleeps), after which the scheduler's
\* callback is due.
AdvanceLoops ==
    /\ now < StartTime + CalSteps * CalStep
    /\ now' = now + CalStep
    /\ intervalHandle' = IF intervalHandle = "null" THEN "null" ELSE "due"
    /\ Did("advance")
    /\ UNCHANGED <<settings, lastStretchTime, paused, snoozedUntil, dueChecks,
                   lastDueAt, calState, tokenState>>

\* Wall-clock time passes, in the busy-detection specification.
AdvanceBusy ==
    /\ now < StartTime + BusyHorizon
    /\ now' = now + 1
    /\ Did("advance")
    /\ UNCHANGED <<settings, timerState, calState, tokenState>>

---------------------------------------------------------------------------
(* GoogleCalendarClient and OutlookCalendarClient: the tokens *)

\* "new GoogleCalendarClient()" / "new OutlookCalendarClient()": the fields seeded
\* from the persisted tokens, when there are any.
constructed(tokens) ==
    IF tokens.present
       THEN [accessToken |-> tokens.access_token, refreshToken |-> tokens.refresh_token,
             expiryDate |-> tokens.expiry_date]
       ELSE NoClientTokens

\* A token that is refreshed only once it has expired.
needsRefresh_AtExpiry(nw, expiryDate) == nw > expiryDate

\* getValidAccessToken: "Date.now() > this.expiryDate - 60_000"
needsRefresh(nw, expiryDate) == nw > expiryDate - SAFETY_MARGIN

\* An exchange that takes the response's refresh_token as it is.
exchangedRefreshToken_Overwrites(sent, held) == sent

\* exchangeCodeForTokens: "tokens.refresh_token || this.refreshToken"
exchangedRefreshToken(sent, held) == IF sent # "" THEN sent ELSE held

\* refreshAccessToken: Google's leaves this.refreshToken as it is, Outlook's assigns
\* "tokens.refresh_token || this.refreshToken".
refreshedRefreshToken(p, sent, held) ==
    IF p = "outlook" /\ sent # "" THEN sent ELSE held

\* What a token endpoint answers with a 200: a new access token, with or without a
\* new refresh token.
TokenResponses == { [access_token |-> "at2", refresh_token |-> rt] : rt \in {"", "rt2"} }

\* The provider's API accepts a bearer token that is not empty, until it expires.
accepted(c) == c.token # "" /\ now < c.tokenExpiry

\* getUpcomingEvents past "await this.getValidAccessToken()": the request is sent
\* with the token that call returned.
fetching(p, refreshFailed) ==
    [stage |-> "fetching", token |-> client'[p].accessToken,
     tokenExpiry |-> client'[p].expiryDate, refreshFailed |-> refreshFailed]

refreshing == [stage |-> "refreshing", token |-> "", tokenExpiry |-> 0,
               refreshFailed |-> FALSE]

\* The calls of the client that have not finished.
Unfinished ==
    BagCardinality(evCalls) + Cardinality({ i \in 1..MaxCalls : auths[i].state # "free" })

\* How many refreshAccessToken() calls await their POST.
Refreshing == CopiesIn(refreshing, evCalls)

\* The suspended calls when call c has moved on: it has ended (r is empty), or it
\* is suspended as r's one element.
moved(c, r) == (evCalls (-) SetToBag({c})) (+) SetToBag(r)

\* getUpcomingEvents(minutesAhead) is called: [] at once when not connected; else
\* getValidAccessToken, which awaits refreshAccessToken's POST when the token is at
\* its margin (and this.refreshToken is not empty), and then the events request.
GetUpcomingEvents ==
    LET p == provider
        due == needsRefresh(now, client[p].expiryDate)
    IN  /\ Unfinished < MaxCalls
        /\ lastOp' = "getUpcomingEvents"
        /\ lastCheck' = NoCheck /\ lastAnswer' = NoAnswer
        /\ UNCHANGED <<now, settings, timerState, calState, persisted, client,
                       provider, authServer, auths>>
        /\ IF ~isConnected(p)
              THEN /\ evCalls' = evCalls
                   /\ lastCall' = [kind |-> "getUpcomingEvents", proceeded |-> FALSE]
           ELSE /\ evCalls' = evCalls (+) SetToBag({IF due /\ client[p].refreshToken # ""
                                                        THEN refreshing
                                                        ELSE fetching(p, FALSE)})
                /\ lastCall' = [kind |-> "getUpcomingEvents", proceeded |-> TRUE,
                                expiryDate |-> client[p].expiryDate,
                                refresh |-> due /\ client[p].refreshToken # "",
                                refreshesBefore |-> Refreshing]

\* refreshAccessToken's POST is answered with tokens: the fields are assigned and
\* persisted, and getValidAccessToken returns the new access token.
RefreshSucceeds ==
    \E tokens \in TokenResponses :
        LET p == provider
        IN  /\ Refreshing > 0
            /\ storeTokens(p, tokens.access_token,
                           refreshedRefreshToken(p, tokens.refresh_token,
                                                 client[p].refreshToken),
                           now + TokenLifetime)
            /\ evCalls' = moved(refreshing, {fetching(p, FALSE)})
            /\ lastOp' = "refreshed"
            /\ lastCheck' = NoCheck /\ lastAnswer' = NoAnswer
            /\ lastCall' = [kind |-> "refreshed", held |-> client[p].refreshToken,
                            sent |-> tokens.refresh_token]
            /\ UNCHANGED <<now, settings, timerState, calState, provider, authServer,
                           auths>>

\* A failed refresh that forgets the access token.
afterFailedRefresh_Clears(tokens) == [tokens EXCEPT !.accessToken = ""]

\* refreshAccessToken, "if (!response.ok) { console.error(...); return; }": the
\* client's fields after it.
afterFailedRefresh(tokens) == tokens

\* refreshAccessToken's POST fails. "!response.ok": it is logged, the function
\* returns and getValidAccessToken returns this.accessToken. The fetch throws:
\* getValidAccessToken rejects and getUpcomingEvents' catch returns [].
RefreshFails ==
    \E threw \in BOOLEAN :
        LET p == provider
        IN  /\ Refreshing > 0
            /\ client' = [client EXCEPT ![p] = IF threw THEN @ ELSE afterFailedRefresh(@)]
            /\ UNCHANGED persisted
            /\ evCalls' = moved(refreshing, IF threw THEN {} ELSE {fetching(p, TRUE)})
            /\ lastOp' = "refresh-failed"
            /\ lastCheck' = NoCheck /\ lastAnswer' = NoAnswer
            /\ lastCall' = [kind |-> "refresh-failed", threw |-> threw,
                            before |-> <<client[p], persisted[p]>>,
                            returned |-> IF threw THEN "" ELSE client'[p].accessToken,
                            expiryDate |-> client[p].expiryDate]
            /\ UNCHANGED <<now, settings, timerState, calState, provider, authServer,
                           auths>>

\* The events request of a getUpcomingEvents() is answered, or throws.
EventsReturn ==
    \E c \in BagToSet(evCalls), outcome \in {"ok", "http-error", "throw"} :
      \E items \in ResponseItems(provider) :
            /\ c.stage = "fetching"
            /\ outcome = "ok" => accepted(c)
            /\ outcome # "ok" => items = <<>>
            /\ evCalls' = moved(c, {})
            /\ lastOp' = "events"
            /\ lastCheck' = NoCheck /\ lastAnswer' = NoAnswer
            /\ lastCall' = [kind |-> "events", refreshFailed |-> c.refreshFailed,
                            accepted |-> accepted(c),
                            events |-> upcomingEvents(provider, outcome, items)]
            /\ UNCHANGED <<now, settings, timerState, calState, persisted, client,
                           provider, authServer, auths>>

---------------------------------------------------------------------------
(* GoogleCalendarClient and OutlookCalendarClient: authenticate() *)

\* A done() without its settled flag.
doneActs_Always(settled) == TRUE

\* done: "if (settled) return;"
doneActs(settled) == ~settled

\* A cleanup that closes no server.
closeAuthServer_Forgets(calls) == calls

\* The authenticate() calls after "this.authServer.close()" on the server that
\* this.authServer references, if any.
closeAuthServer(calls) ==
    IF authServer = 0 THEN calls
    ELSE [calls EXCEPT ![authServer].server = "closed"]

\* A call that has settled, awaits no exchange and has no server listening leaves
\* nothing behind.
released(calls) ==
    [i \in 1..MaxCalls |->
        IF calls[i].state = "settled" /\ calls[i].exchanges = 0
                                     /\ calls[i].server # "listening"
           THEN NoAuth
           ELSE calls[i]]

\* done(fn) of the i-th call, with the exchanges it still awaits: settled is set,
\* cleanup() closes this.authServer and clears the timer, and fn settles the
\* promise. The handler of 'connect-google' / 'connect-outlook', which awaits
\* the promise, enables the provider when it resolves.
done(i, outcome, exchanges) ==
    IF doneActs(auths[i].state = "settled")
       THEN /\ auths' = released([closeAuthServer(auths) EXCEPT
                                     ![i].state = "settled", ![i].exchanges = exchanges])
            /\ authServer' = 0
            /\ settings' = IF outcome = "success"
                              THEN [settings EXCEPT !.calendarProviders[provider] = TRUE]
                              ELSE settings
            /\ lastOp' = "settled"
            /\ lastCall' = [kind |-> "settled", call |-> i, outcome |-> outcome,
                            configured |-> TRUE,
                            settledBefore |-> auths[i].state = "settled",
                            cleanups |-> 1, timerCleared |-> TRUE]
       ELSE /\ auths' = released([auths EXCEPT ![i].exchanges = exchanges])
            /\ UNCHANGED <<authServer, settings>>
            /\ lastOp' = "done-ignored"
            /\ lastCall' = [kind |-> "done-ignored", call |-> i]

\* The redirect listeners' ports: "this.authServer.listen(8234, ...)" (Google),
\* "this.authServer.listen(8235, ...)" (Outlook).
RedirectPort == [google |-> 8234, outlook |-> 8235]

\* "this.authServer.listen(port, () => { shell.openExternal(authUrl.toString()) })":
\* the browser is opened by listen's callback, which runs once the port is bound.
opensBrowser(bound) == bound

\* authenticate() is called. Without a client id it throws. Else a leftover
\* server is closed, and the promise's executor creates the server, arms the
\* timer and calls listen(): the port is bound, or 'error' is emitted at once
\* and done() rejects. (A call is made while its timer's deadline lies within the
\* clock's run, and while fewer than MaxCalls calls are unfinished.)
Authenticate ==
    LET p == provider
    IN  /\ lastCheck' = NoCheck /\ lastAnswer' = NoAnswer
        /\ UNCHANGED <<now, timerState, calState, persisted, client, provider, evCalls>>
        /\ IF settings.clientId[p] = ""
              THEN /\ UNCHANGED <<settings, authServer, auths>>
                   /\ lastOp' = "settled"
                   /\ lastCall' = [kind |-> "settled", call |-> 0,
                                   outcome |-> "configuration-error",
                                   configured |-> FALSE, settledBefore |-> FALSE,
                                   cleanups |-> 0, timerCleared |-> FALSE]
           ELSE \E i \in 1..MaxCalls, bound \in BOOLEAN :
                   /\ Unfinished < MaxCalls
                   /\ auths[i].state = "free"
                   /\ \A j \in 1..(i - 1) : auths[j].state # "free"
                   /\ now + AUTH_TIMEOUT <= StartTime + ClientHorizon
                   /\ IF bound
                         THEN /\ auths' = [closeAuthServer(auths) EXCEPT ![i] =
                                              [state |-> "pending", server |-> "listening",
                                               deadline |-> now + AUTH_TIMEOUT,
                                               exchanges |-> 0]]
                              /\ authServer' = i
                              /\ UNCHANGED settings
                              /\ lastOp' = "authenticate"
                              /\ lastCall' = [kind |-> "authenticate", call |-> i,
                                              leftover |-> authServer,
                                              opened |-> opensBrowser(bound)]
                         ELSE /\ auths' = closeAuthServer(auths)
                              /\ authServer' = 0
                              /\ UNCHANGED settings
                              /\ lastOp' = "settled"
                              /\ lastCall' = [kind |-> "settled", call |-> i,
                                              outcome |-> "listener-bind-error",
                                              configured |-> TRUE,
                                              settledBefore |-> FALSE,
                                              cleanups |-> 1, timerCleared |-> TRUE,
                                              opened |-> opensBrowser(bound)]

\* The browser is redirected to the call's server with a code:
\* exchangeCodeForTokens sends its POST.
RedirectWithCode(i) ==
    /\ auths[i].server = "listening"
    /\ auths[i].exchanges = 0
    /\ auths' = [auths EXCEPT ![i].exchanges = 1]
    /\ Did("redirect")
    /\ UNCHANGED <<now, settings, timerState, calState, persisted, client, provider,
                   authServer, evCalls>>

\* The browser is redirected with an error: done() rejects.
RedirectWithError(i) ==
    /\ auths[i].server = "listening"
    /\ done(i, "provider-error", auths[i].exchanges)
    /\ lastCheck' = NoCheck /\ lastAnswer' = NoAnswer
    /\ UNCHANGED <<now, timerState, calState, persisted, client, provider, evCalls>>

\* exchangeCodeForTokens' POST is answered with tokens: they are assigned and
\* persisted, and done() resolves.
ExchangeSucceeds(i) ==
    \E tokens \in TokenResponses :
        /\ auths[i].exchanges > 0
        /\ storeTokens(provider, tokens.access_token,
                       exchangedRefreshToken(tokens.refresh_token,
                                             client[provider].refreshToken),
                       now + TokenLifetime)
        /\ done(i, "success", auths[i].exchanges - 1)
        /\ lastCheck' = NoCheck /\ lastAnswer' = NoAnswer
        /\ UNCHANGED <<now, timerState, calState, provider, evCalls>>

\* exchangeCodeForTokens' POST is answered with an error status, or throws:
\* done() rejects.
ExchangeFails(i) ==
    /\ auths[i].exchanges > 0
    /\ done(i, "exchange-failure", auths[i].exchanges - 1)
    /\ lastCheck' = NoCheck /\ lastAnswer' = NoAnswer
    /\ UNCHANGED <<now, timerState, calState, persisted, client, provider, evCalls>>

\* The call's timer fires: done() rejects with 'Authentication timed out'.
Timeout(i) ==
    /\ auths[i].state = "pending"
    /\ now >= auths[i].deadline
    /\ done(i, "timeout", auths[i].exchanges)
    /\ lastCheck' = NoCheck /\ lastAnswer' = NoAnswer
    /\ UNCHANGED <<now, timerState, calState, persisted, client, provider, evCalls>>

\* The program is quit and started again: the clients are constructed anew from
\* the persisted tokens, and nothing of the calls in flight remains.
Restart ==
    /\ lastOp # "restart"
    /\ client' = [p \in Providers |-> constructed(persisted[p])]
    /\ authServer' = 0
    /\ auths' = [i \in 1..MaxCalls |-> NoAuth]
    /\ evCalls' = EmptyBag
    /\ lastOp' = "restart"
    /\ lastCheck' = NoCheck /\ lastAnswer' = NoAnswer
    /\ lastCall' = [kind |-> "restart", connected |-> isConnected(provider),
                    before |-> client[provider]]
    /\ UNCHANGED <<now, settings, timerState, calState, persisted, provider>>

\* Wall-clock time passes, in the client's specification.
AdvanceClient ==
    /\ now < StartTime + ClientHorizon
    /\ now' = now + 1
    /\ Did("advance")
    /\ UNCHANGED <<settings, timerState, calState, tokenState>>

---------------------------------------------------------------------------
(* Specifications *)

\* The state after construction: "new StretchTimer()", "new CalendarManager()" and
\* its two clients, with nothing persisted but the defaults.
Init ==
    /\ now = StartTime
    /\ lastOp = "init"
    /\ settings = DefaultSettings
    /\ lastStretchTime = StartTime
    /\ paused = FALSE
    /\ snoozedUntil = 0
    /\ intervalHandle = "null"
    /\ dueChecks = 0
    /\ lastCheck = NoCheck
    /\ lastDueAt = Never
    /\ cache = [events |-> <<>>, fetchedAt |-> 0]
    /\ pollHandle = NoHandle
    /\ cycles = <<>>
    /\ lastAnswer = NoAnswer
    /\ persisted = [p \in Providers |-> NoTokens]
    /\ client = [p \in Providers |-> NoClientTokens]
    /\ provider = "google"
    /\ authServer = 0
    /\ auths = [i \in 1..MaxCalls |-> NoAuth]
    /\ evCalls = EmptyBag
    /\ lastCall = NoCall

\* The reminder scheduler and the tray's due handler.
NextTimer ==
    \/ Start
    \/ Stop
    \/ Pause
    \/ Resume
    \/ Snooze
    \/ ResetTimer
    \/ Tick
    \/ SuppressionAnswered
    \/ UpdateTimerSettings
    \/ AdvanceTimer

SpecTimer == Init /\ [][NextTimer]_vars

\* The events the cache holds in the busy-detection specification: meetings of one
\* minute that start 30 s and 90 s after the first instant, of every status.
EventPool ==
    { [start |-> StartTime + d, end |-> StartTime + d + UnitsPerMinute, status |-> st] :
        d \in {1, 3}, st \in {"confirmed", "tentative", "free"} }

EventSeqs == UNION { [1..n -> EventPool] : n \in 0..MaxEvents }

\* Busy detection: the cache as a fetch cycle that ended at the first instant left
\* it, with any events in any order.
InitBusy ==
    /\ now = StartTime
    /\ lastOp = "init"
    /\ settings = DefaultSettings
    /\ lastStretchTime = StartTime
    /\ paused = FALSE
    /\ snoozedUntil = 0
    /\ intervalHandle = "null"
    /\ dueChecks = 0
    /\ lastCheck = NoCheck
    /\ lastDueAt = Never
    /\ \E events \in EventSeqs : cache = [events |-> events, fetchedAt |-> StartTime]
    /\ pollHandle = NoHandle
    /\ cycles = <<>>
    /\ lastAnswer = NoAnswer
    /\ persisted = [p \in Providers |-> NoTokens]
    /\ client = [p \in Providers |-> NoClientTokens]
    /\ provider = "google"
    /\ authServer = 0
    /\ auths = [i \in 1..MaxCalls |-> NoAuth]
    /\ evCalls = EmptyBag
    /\ lastCall = NoCall

NextBusy ==
    \/ QueryCall
    \/ UpdateBusySettings
    \/ AdvanceBusy

SpecBusy == InitBusy /\ [][NextBusy]_vars

\* A TokenSet an earlier run of the program persisted.
OldTokens == [present |-> TRUE, access_token |-> "at1", refresh_token |-> "rt1",
              expiry_date |-> StartTime - 1]

\* The aggregator after construction: each provider is connected (an earlier run
\* persisted its tokens) or not, and enabled or not.
InitCal ==
    /\ now = StartTime
    /\ lastOp = "init"
    /\ \E g \in BOOLEAN, o \in BOOLEAN :
          settings = [DefaultSettings EXCEPT !.calendarProviders =
                                                [google |-> g, outlook |-> o]]
    /\ lastStretchTime = StartTime
    /\ paused = FALSE
    /\ snoozedUntil = 0
    /\ intervalHandle = "null"
    /\ dueChecks = 0
    /\ lastCheck = NoCheck
    /\ lastDueAt = Never
    /\ cache = [events |-> <<>>, fetchedAt |-> 0]
    /\ pollHandle = NoHandle
    /\ cycles = <<>>
    /\ lastAnswer = NoAnswer
    /\ persisted \in [Providers -> {NoTokens, OldTokens}]
    /\ client = [p \in Providers |-> constructed(persisted[p])]
    /\ provider = "google"
    /\ authServer = 0
    /\ auths = [i \in 1..MaxCalls |-> NoAuth]
    /\ evCalls = EmptyBag
    /\ lastCall = NoCall

\* The aggregator: polling, queries, the providers' answers, disconnecting, and the
\* providers' checkboxes.
NextCal ==
    \/ StartPolling
    \/ StopPolling
    \/ Poll
    \/ QueryCall
    \/ ProviderReturns
    \/ \E p \in Providers : DisconnectProvider(p)
    \/ \E p \in Providers : ToggleProvider(p)
    \/ AdvanceCal

SpecCal == InitCal /\ [][NextCal]_vars

\* The program after construction, both providers enabled and connected by an
\* earlier run, and a settings window that may connect either provider again.
InitLoops ==
    /\ now = StartTime
    /\ lastOp = "init"
    /\ settings = [DefaultSettings EXCEPT !.calendarProviders =
                                             [google |-> TRUE, outlook |-> TRUE]]
    /\ lastStretchTime = StartTime
    /\ paused = FALSE
    /\ snoozedUntil = 0
    /\ intervalHandle = "null"
    /\ dueChecks = 0
    /\ lastCheck = NoCheck
    /\ lastDueAt = Never
    /\ cache = [events |-> <<>>, fetchedAt |-> 0]
    /\ pollHandle = NoHandle
    /\ cycles = <<>>
    /\ lastAnswer = NoAnswer
    /\ persisted = [p \in Providers |-> OldTokens]
    /\ client = [p \in Providers |-> constructed(persisted[p])]
    /\ provider \in Providers
    /\ authServer = 0
    /\ auths = [i \in 1..MaxCalls |-> NoAuth]
    /\ evCalls = EmptyBag
    /\ lastCall = NoCall

\* The two intervals (the scheduler's checks and the aggregator's polling) from
\* TrayManager.init() to the tray's Quit, with the due handler's suppression
\* checks, the providers' answers and failures, and authenticate() calls that fail.
NextLoops ==
    \/ TrayInit
    \/ Quit
    \/ Tick
    \/ SuppressionAnswered
    \/ Poll
    \/ ProviderReturns
    \/ Authenticate
    \/ \E i \in 1..MaxCalls : RedirectWithError(i)
    \/ \E i \in 1..MaxCalls : Timeout(i)
    \/ AdvanceLoops

SpecLoops == InitLoops /\ [][NextLoops]_vars

\* A callback that is due runs, and a request that was sent is answered.
SpecLoopsFair ==
    /\ SpecLoops
    /\ WF_vars(Tick)
    /\ WF_vars(Poll)
    /\ WF_vars(SuppressionAnswered)
    /\ WF_vars(ProviderReturns)

\* A TokenSet persisted a moment ago.
CurrentTokens == [present |-> TRUE, access_token |-> "at1", refresh_token |-> "rt1",
                  expiry_date |-> StartTime + TokenLifetime]

\* One provider's client after construction: an earlier run left its tokens or
\* none, and its client id is configured or not.
InitClient ==
    /\ now = StartTime
    /\ lastOp = "init"
    /\ provider \in Providers
    /\ \E id \in {"", "id"} :
          settings = [DefaultSettings EXCEPT !.clientId[provider] = id]
    /\ lastStretchTime = StartTime
    /\ paused = FALSE
    /\ snoozedUntil = 0
    /\ intervalHandle = "null"
    /\ dueChecks = 0
    /\ lastCheck = NoCheck
    /\ lastDueAt = Never
    /\ cache = [events |-> <<>>, fetchedAt |-> 0]
    /\ pollHandle = NoHandle
    /\ cycles = <<>>
    /\ lastAnswer = NoAnswer
    /\ \E tokens \in {NoTokens, OldTokens, CurrentTokens} :
          persisted = [p \in Providers |-> IF p = provider THEN tokens ELSE NoTokens]
    /\ client = [p \in Providers |-> constructed(persisted[p])]
    /\ authServer = 0
    /\ auths = [i \in 1..MaxCalls |-> NoAuth]
    /\ evCalls = EmptyBag
    /\ lastCall = NoCall

\* One client's tokens: event fetches with their token refreshes, disconnecting,
\* and restarts.
NextToken ==
    \/ GetUpcomingEvents
    \/ RefreshSucceeds
    \/ RefreshFails
    \/ EventsReturn
    \/ DisconnectProvider(provider)
    \/ Restart
    \/ AdvanceClient

SpecToken == InitClient /\ [][NextToken]_vars

\* One client's authenticate() calls, with disconnecting and restarts.
NextAuth ==
    \/ Authenticate
    \/ \E i \in 1..MaxCalls : RedirectWithCode(i)
    \/ \E i \in 1..MaxCalls : RedirectWithError(i)
    \/ \E i \in 1..MaxCalls : ExchangeSucceeds(i)
    \/ \E i \in 1..MaxCalls : ExchangeFails(i)
    \/ \E i \in 1..MaxCalls : Timeout(i)
    \/ DisconnectProvider(provider)
    \/ Restart
    \/ AdvanceClient

SpecAuth == InitClient /\ [][NextAuth]_vars

\* Time passes and a timer that is due fires.
SpecAuthFair ==
    /\ SpecAuth
    /\ WF_vars(AdvanceClient)
    /\ \A i \in 1..MaxCalls : WF_vars(Timeout(i))

\* One client, whole: event fetches with their token refreshes, authenticate()
\* calls, disconnecting, and restarts.
NextClient ==
    \/ GetUpcomingEvents
    \/ RefreshSucceeds
    \/ RefreshFails
    \/ EventsReturn
    \/ Authenticate
    \/ \E i \in 1..MaxCalls : RedirectWithCode(i)
    \/ \E i \in 1..MaxCalls : RedirectWithError(i)
    \/ \E i \in 1..MaxCalls : ExchangeSucceeds(i)
    \/ \E i \in 1..MaxCalls : ExchangeFails(i)
    \/ \E i \in 1..MaxCalls : Timeout(i)
    \/ DisconnectProvider(provider)
    \/ Restart
    \/ AdvanceClient

SpecClient == InitClient /\ [][NextClient]_vars

---------------------------------------------------------------------------
(* Claims about the reminder scheduler, under SpecTimer. *)

IntervalUnits == settings.stretchIntervalMinutes * UnitsPerMinute

\* C1: a periodic check made while the scheduler is running (not paused) and not
\* snoozed emits 'stretch-due' if and only if now - lastStretchTime >= the
\* configured interval; an emitting check leaves the timer reset to now (the due
\* handler's resetTimer()), and lies at least a full interval after the previous
\* emission: one emission per crossing.
C1_DueIffIntervalElapsed ==
    lastOp = "tick" =>
        /\ (~paused /\ now >= lastCheck.snoozedUntil) =>
              (lastCheck.emitted <=> now - lastCheck.lastStretchTime >= IntervalUnits)
        /\ lastCheck.emitted =>
              /\ lastStretchTime = now
              /\ snoozedUntil = 0
              /\ lastCheck.prevDueAt # Never => now - lastCheck.prevDueAt >= IntervalUnits

\* C1's case: a second emission, a full interval after the first.
C1_Witness ==
    /\ lastOp = "tick"
    /\ lastCheck.emitted
    /\ lastCheck.prevDueAt # Never

\* C2: a periodic check made while paused, or while now < snoozedUntil, emits no
\* 'stretch-due', however large the elapsed time; and snooze() leaves snoozedUntil
\* at now + the configured snooze duration.
C2_NoDueWhilePausedOrSnoozed ==
    /\ (lastOp = "tick" /\ (paused \/ now < lastCheck.snoozedUntil)) => ~lastCheck.emitted
    /\ lastOp = "snooze" =>
          snoozedUntil = now + settings.snoozeDurationMinutes * UnitsPerMinute

\* C2's case: a check of a running scheduler that is snoozed although the interval
\* has elapsed.
C2_Witness ==
    /\ lastOp = "tick"
    /\ ~paused
    /\ now < lastCheck.snoozedUntil
    /\ now - lastCheck.lastStretchTime >= IntervalUnits

\* C12: getRemainingMs() is -1 whenever the scheduler is paused; when it is not
\* paused it is snoozedUntil - now while now < snoozedUntil, and otherwise
\* max(0, interval - (now - lastStretchTime)); so it is >= 0 in every state in
\* which the scheduler is not paused.
C12_RemainingByCases ==
    /\ paused => getRemainingMs = -1
    /\ (~paused /\ now < snoozedUntil) => getRemainingMs = snoozedUntil - now
    /\ (~paused /\ now >= snoozedUntil) =>
          /\ getRemainingMs >= IntervalUnits - (now - lastStretchTime)
          /\ getRemainingMs \in {0, IntervalUnits - (now - lastStretchTime)}
    /\ ~paused => getRemainingMs >= 0

\* C12's case: a scheduler that is neither paused nor snoozed, more than an
\* interval after its last reset (its checks were stopped): the remaining time is
\* held at zero.
C12_Witness ==
    /\ ~paused
    /\ now >= snoozedUntil
    /\ now - lastStretchTime > IntervalUnits
    /\ getRemainingMs = 0

\* C13: while the scheduler is running (not paused), getRemainingMs() never
\* increases as time advances with no reset or snooze in between, the instant at
\* which a snooze expires included; it is -1 throughout Paused, and it is exactly
\* snoozedUntil - now while now < snoozedUntil.
C13_RemainingNeverIncreases ==
    /\ [][(now' > now /\ ~paused /\ ~paused') => getRemainingMs' <= getRemainingMs]_vars
    /\ [](paused => getRemainingMs = -1)
    /\ []((~paused /\ now < snoozedUntil) => getRemainingMs = snoozedUntil - now)

\* C18: the scheduler enters Snoozed (now < snoozedUntil) only by a snooze() taken
\* while it is running: no step taken while it is paused, snooze() and resume()
\* included, leads from a state that is not snoozed to one that is.
C18_SnoozedOnlyFromRunning ==
    [][(~(now < snoozedUntil) /\ now' < snoozedUntil')
          => (lastOp' = "snooze" /\ ~paused)]_vars

\* C17: the due handler has called resetTimer() (lastStretchTime = now,
\* snoozedUntil cleared) by the time the emitting check returns, before its
\* suppression check is answered; so a periodic check that fires while a
\* suppression check is still in flight, less than a full interval after the
\* emission, emits no second 'stretch-due'.
C17_NoSecondDueWhileInFlight ==
    lastOp = "tick" =>
        /\ lastCheck.emitted =>
              /\ dueChecks = lastCheck.inFlight + 1
              /\ lastStretchTime = now
              /\ snoozedUntil = 0
        /\ (/\ lastCheck.inFlight > 0
            /\ lastCheck.prevDueAt # Never
            /\ now - lastCheck.prevDueAt < IntervalUnits) => ~lastCheck.emitted

\* C17's case: a check of a running scheduler, not snoozed, made while the
\* suppression check of the last emission is still unanswered two ticks after it.
C17_Witness ==
    /\ lastOp = "tick"
    /\ ~paused
    /\ now >= lastCheck.snoozedUntil
    /\ lastCheck.inFlight > 0
    /\ lastCheck.prevDueAt # Never
    /\ now - lastCheck.prevDueAt >= 2
    /\ now - lastCheck.prevDueAt < IntervalUnits
    /\ ~lastCheck.emitted

\* C26: no notification of the due path is shown while the scheduler is paused:
\* when pause() was called while a due handler's suppression check was in flight,
\* the handler shows no notification when the check is answered.
C26_NoNotificationWhilePaused ==
    lastOp = "notification" => ~paused

---------------------------------------------------------------------------
(* Claims about busy detection, under SpecBusy. *)

\* The event is a cause of suppression: the status rules do not skip it, and it
\* is in progress or starts within the buffer window.
Causes(e, bufferMinutes) ==
    /\ e.status # "free"
    /\ e.status = "tentative" => settings.blockOnTentative
    /\ \/ e.start <= now /\ e.end > now
       \/ e.start > now /\ e.start <= now + bufferMinutes * UnitsPerMinute

Reordered(events, f) == [i \in 1..Len(events) |-> events[f[i]]]

\* C3: isBusyOrMeetingSoon(bufferMinutes) returns true exactly when some cached
\* event that the status rules do not skip is in progress (start <= now < end) or
\* starts soon (now < start <= now + bufferMinutes); the cached sequence in any
\* other order gives the same result.
C3_BusyExactlyWhenCaused ==
    lastOp = "answer" =>
        LET events == lastAnswer.evaluated
            b == lastAnswer.bufferMinutes
        IN  /\ lastAnswer.result <=> \E i \in 1..Len(events) : Causes(events[i], b)
            /\ \A f \in Permutations(1..Len(events)) :
                  evaluateBusy(Reordered(events, f), b) = lastAnswer.result

\* C3's case: true is returned for two cached events, and the one cause is an event
\* that starts exactly at the buffer boundary.
C3_Witness ==
    /\ lastOp = "answer"
    /\ lastAnswer.result
    /\ Len(lastAnswer.evaluated) = 2
    /\ \A i \in 1..2 :
          Causes(lastAnswer.evaluated[i], lastAnswer.bufferMinutes) =>
              lastAnswer.evaluated[i].start = now + lastAnswer.bufferMinutes * UnitsPerMinute

\* The timing alone: the event is in progress or starts within the buffer window.
Timely(e, bufferMinutes) ==
    \/ e.start <= now /\ e.end > now
    \/ e.start > now /\ e.start <= now + bufferMinutes * UnitsPerMinute

\* C14: while the policy flag blockOnTentative is false, a cached event with
\* status "tentative" never causes isBusyOrMeetingSoon to return true, whatever
\* its timing: a true result has a cause that is neither tentative nor free, and
\* the result is that of the cache without its tentative events.  While the flag
\* is true, a tentative event that is in progress or starts within the buffer
\* window makes the result true.
C14_TentativeCountsOnlyWithFlag ==
    lastOp = "answer" =>
        LET events == lastAnswer.evaluated
            b == lastAnswer.bufferMinutes
            tentative(e) == e.status = "tentative"
            others == SelectSeq(events, LAMBDA e : ~tentative(e))
        IN  /\ ~settings.blockOnTentative =>
                  /\ lastAnswer.result =>
                        \E i \in 1..Len(events) :
                            /\ events[i].status \notin {"tentative", "free"}
                            /\ Timely(events[i], b)
                  /\ lastAnswer.result = evaluateBusy(others, b)
            /\ settings.blockOnTentative =>
                  ((\E i \in 1..Len(events) : tentative(events[i]) /\ Timely(events[i], b))
                      => lastAnswer.result)

\* C14's case: with the flag false, false is returned although a tentative event
\* is in progress.
C14_Witness ==
    /\ lastOp = "answer"
    /\ ~settings.blockOnTentative
    /\ ~lastAnswer.result
    /\ \E i \in 1..Len(lastAnswer.evaluated) :
          /\ lastAnswer.evaluated[i].status = "tentative"
          /\ lastAnswer.evaluated[i].start <= now
          /\ lastAnswer.evaluated[i].end > now

\* C15: a cached event with status "free" never causes isBusyOrMeetingSoon to
\* return true, for every timing, every bufferMinutes and both values of the
\* policy flag: a true result has a cause that is not free, and the result is that
\* of the cache without its free events.
C15_FreeNeverCounts ==
    lastOp = "answer" =>
        LET events == lastAnswer.evaluated
            b == lastAnswer.bufferMinutes
            busy == SelectSeq(events, LAMBDA e : e.status # "free")
        IN  /\ lastAnswer.result =>
                  \E i \in 1..Len(events) :
                      events[i].status # "free" /\ Timely(events[i], b)
            /\ lastAnswer.result = evaluateBusy(busy, b)

\* C15's case: with the flag true, false is returned for a cache whose events are
\* all free, one in progress and one starting within the buffer window.
C15_Witness ==
    /\ lastOp = "answer"
    /\ settings.blockOnTentative
    /\ ~lastAnswer.result
    /\ \A i \in 1..Len(lastAnswer.evaluated) : lastAnswer.evaluated[i].status = "free"
    /\ \E i, j \in 1..Len(lastAnswer.evaluated) :
          /\ lastAnswer.evaluated[i].start <= now /\ lastAnswer.evaluated[i].end > now
          /\ lastAnswer.evaluated[j].start > now
          /\ lastAnswer.evaluated[j].start
                <= now + lastAnswer.bufferMinutes * UnitsPerMinute

---------------------------------------------------------------------------
(* Claims about the aggregator, under SpecCal. *)

\* C4: an isBusyOrMeetingSoon() call made when now - fetchedAt > CACHE_TTL runs
\* exactly one fetch cycle and evaluates the events that cycle fetched, which are
\* then the cache's; a call made on a cache that is not stale runs none and
\* evaluates the cache as it is.
C4_StaleCacheRefreshedOnce ==
    lastOp = "answer" =>
        /\ lastAnswer.stale =>
              /\ lastAnswer.fetches = 1
              /\ lastAnswer.evaluated = lastAnswer.fetched
              /\ cache = [events |-> lastAnswer.fetched, fetchedAt |-> now]
        /\ ~lastAnswer.stale =>
              /\ lastAnswer.fetches = 0
              /\ lastAnswer.evaluated = cache.events
              /\ now - cache.fetchedAt <= CACHE_TTL
        /\ lastAnswer.result = evaluateBusy(lastAnswer.evaluated, lastAnswer.bufferMinutes)

\* C4's case: a cache that was fetched has grown stale, and the query's own cycle
\* has fetched a meeting from each provider.
C4_Witness ==
    /\ lastOp = "answer"
    /\ lastAnswer.stale
    /\ Len(lastAnswer.fetched) = 2
    /\ now > StartTime + CACHE_TTL

\* C11: disconnect() of a provider leaves its client's access token, refresh
\* token and expiry cleared and its persisted TokenSet erased, so that
\* isConnected() is false at once; the other provider's tokens, in memory and
\* persisted, are as they were.
C11_DisconnectClearsOneProvider ==
    lastCall.kind = "disconnect" =>
        LET p == lastCall.provider
        IN  /\ client[p] = [accessToken |-> "", refreshToken |-> "", expiryDate |-> 0]
            /\ ~persisted[p].present
            /\ ~isConnected(p)
            /\ \A q \in Providers \ {p} :
                  /\ client[q] = lastCall.before.client[q]
                  /\ persisted[q] = lastCall.before.persisted[q]

\* C11's case: a connected provider was disconnected while the other provider is
\* connected.
C11_Witness ==
    /\ lastCall.kind = "disconnect"
    /\ lastCall.before.persisted[lastCall.provider].refresh_token # ""
    /\ \E q \in Providers \ {lastCall.provider} :
          isConnected(q) /\ client[q].refreshToken # ""

\* What the providers' calls of the fetch cycle that has just ended returned, in
\* the order in which fetchEvents() asks them.
Contributions(skipped) ==
    (IF "google" \in lastCall.asked \ skipped THEN lastCall.returned.google ELSE <<>>)
        \o (IF "outlook" \in lastCall.asked \ skipped
               THEN lastCall.returned.outlook ELSE <<>>)

\* C19: when a fetch cycle has ended, the cache holds exactly the concatenation of
\* what the providers asked in that cycle returned, with fetchedAt the instant it
\* ended, and nothing of an earlier cycle; the providers asked are enabled and
\* connected ones (a provider that was disabled or not connected when the cycle
\* began is not asked and contributes nothing), and a provider that was enabled
\* when the cycle began and connected throughout is asked.
C19_CacheIsTheCycle ==
    lastCall.kind = "cycle" =>
        /\ cache = [events |-> Contributions({}), fetchedAt |-> now]
        /\ lastCall.asked \subseteq lastCall.eligible
        /\ \A p \in Providers \ lastCall.asked : lastCall.returned[p] = <<>>
        /\ \A p \in lastCall.eligible : isConnected(p) => p \in lastCall.asked

\* C19's case: a cycle of two enabled and connected providers ends, each having
\* returned an event, after one of them was disabled during the cycle; the cache
\* is the two events, Google's first.
C19_Witness ==
    /\ lastCall.kind = "cycle"
    /\ lastCall.asked = Providers
    /\ \A p \in Providers : Len(lastCall.returned[p]) = 1
    /\ Len(cache.events) = 2
    /\ \E p \in Providers : ~settings.calendarProviders[p]

\* C20: a provider's failed fetch (a response that is not ok, or a thrown network
\* or refresh error) does not abort the fetch cycle: the provider contributes the
\* empty sequence, the other provider, if it is enabled and connected, is asked
\* all the same, and the cycle ends with the cache replaced by what the providers
\* that did not fail returned and a new fetchedAt.
C20_FailureDoesNotAbortTheCycle ==
    (lastCall.kind = "cycle" /\ lastCall.failed # {}) =>
        /\ \A p \in lastCall.failed : lastCall.returned[p] = <<>>
        /\ \A q \in lastCall.eligible \ lastCall.failed :
              isConnected(q) => q \in lastCall.asked
        /\ cache = [events |-> Contributions(lastCall.failed), fetchedAt |-> now]

\* C20's case: Google's fetch failed and Outlook, asked after it, returned an
\* event, which is the cache.
C20_Witness ==
    /\ lastCall.kind = "cycle"
    /\ lastCall.failed = {"google"}
    /\ "outlook" \in lastCall.asked
    /\ Len(lastCall.returned.outlook) = 1
    /\ cache.events = lastCall.returned.outlook

\* C25: when fetch cycles overlap the cache never goes back in time: a cycle
\* that was called before another one which has already ended (and published its
\* result) leaves the cache as it is when it ends in its turn; and whenever a
\* cycle has ended, the cache's fetchedAt and events are both that cycle's.
C25_CacheNeverGoesBack ==
    /\ [][\A i \in 1..Len(cycles) :
            (cycles' = withoutCycle(i) /\ cycles[i].overtaken) => cache' = cache]_vars
    /\ [](lastCall.kind = "cycle" =>
            cache = [events |-> Contributions({}), fetchedAt |-> now])

---------------------------------------------------------------------------
(* Claims about the two intervals, under SpecLoopsFair. *)

\* C16: no error (a failed or thrown event fetch or token refresh, a rejected
\* authenticate()) stops the scheduler's periodic checks or the aggregator's
\* polling: an interval that has been started is cleared by the stop(),
\* respectively stopPolling(), of the tray's Quit and by no other step; and until
\* then its callback runs whenever it is due.
C16_OnlyStopHaltsTheIntervals ==
    /\ [][/\ (intervalHandle # "null" /\ intervalHandle' = "null") => lastOp' = "quit"
          /\ (pollHandle # NoHandle /\ pollHandle' = NoHandle) => lastOp' = "quit"]_vars
    /\ (intervalHandle = "due") ~> (intervalHandle # "due")
    /\ (pollHandle # NoHandle /\ now >= pollHandle)
          ~> (pollHandle = NoHandle \/ now < pollHandle)

\* C16's case: after the polling callback has run a second time, a fetch cycle in
\* which both providers' fetches failed ends, the scheduler's interval being armed
\* and a reminder having been emitted.
C16_Witness ==
    /\ lastCall.kind = "cycle"
    /\ lastCall.failed = Providers
    /\ pollHandle = StartTime + 2 * POLL_INTERVAL
    /\ intervalHandle # "null"
    /\ lastDueAt # Never

---------------------------------------------------------------------------
(* Claims about a calendar client, under SpecAuth, SpecAuthFair, SpecToken and
   SpecClient. *)

Outcomes ==
    {"success", "exchange-failure", "provider-error", "timeout", "listener-bind-error"}

\* The authenticate() call that settled in the last step did so for the first time,
\* and tore its listener and timer down once.
SettledOnce ==
    /\ ~lastCall.settledBefore
    /\ lastCall.cleanups = 1
    /\ lastCall.timerCleared

\* C5 as stated: every authenticate() call settles with one of the five outcomes,
\* once, with listener teardown and timer cancellation run once.
C5_Original ==
    lastCall.kind = "settled" => lastCall.outcome \in Outcomes /\ SettledOnce

\* C5: an authenticate() call made without a client id is rejected at once with a
\* configuration error, before any listener or timer exists. Every other call is
\* settled by exactly one of success, exchange-failure, provider-error, timeout
\* and listener-bind-error: it never settles twice, teardown and timer
\* cancellation run once, and while it is pending it eventually settles.
C5_SettlesExactlyOnce ==
    /\ [](lastCall.kind = "settled" =>
             IF lastCall.configured
                THEN lastCall.outcome \in Outcomes /\ SettledOnce
                ELSE /\ lastCall.outcome = "configuration-error"
                     /\ ~lastCall.settledBefore
                     /\ lastCall.cleanups = 0)
    /\ \A i \in 1..MaxCalls :
          (auths[i].state = "pending") ~> (auths[i].state # "pending")

\* C5's case: the timeout settled a call while its exchange was in flight, and the
\* done() of the exchange's answer has just been ignored.
C5_Witness ==
    /\ lastCall.kind = "done-ignored"
    /\ auths[lastCall.call].state = "free"

\* C6: when an authenticate() call has settled, with any outcome, none of the
\* provider's redirect servers is listening.
C6_NoListenerAfterSettling ==
    lastCall.kind = "settled" =>
        \A i \in 1..MaxCalls : auths[i].server # "listening"

\* C6's case: a call settled while a later call was pending, whose server the
\* cleanup closed.
C6_Witness ==
    /\ lastCall.kind = "settled"
    /\ lastCall.outcome = "timeout"
    /\ \E j \in 1..MaxCalls : auths[j].state = "pending" /\ auths[j].server = "closed"

\* C7 as stated: getValidAccessToken() refreshes exactly when
\* now >= expiry - 60 s, and every call that refreshes issues a request of its own.
C7_RefreshFromTheMargin ==
    lastCall.kind = "getUpcomingEvents" /\ lastCall.proceeded =>
        /\ lastCall.refresh <=> now >= lastCall.expiryDate - SAFETY_MARGIN
        /\ Refreshing = lastCall.refreshesBefore + (IF lastCall.refresh THEN 1 ELSE 0)

HoldsRefreshToken ==
    /\ client[provider].refreshToken # ""
    /\ persisted[provider].present
    /\ persisted[provider].refresh_token # ""

\* C8: once the provider holds a refresh token, in memory and persisted, every
\* step that is not a disconnect leaves it holding one.
C8_RefreshTokenKept ==
    [][HoldsRefreshToken /\ lastOp' # "disconnect" => HoldsRefreshToken']_vars

\* C8's case: a code exchange whose response carried no refresh_token succeeded
\* on a client that held one.
C8_Witness ==
    /\ lastCall.kind = "settled"
    /\ lastCall.outcome = "success"
    /\ client[provider].refreshToken = "rt1"
    /\ client[provider].accessToken = "at2"
    /\ HoldsRefreshToken

\* C9 as stated: a failed refresh leaves the tokens as they were,
\* getValidAccessToken() returns the previous access token instead of failing,
\* and the event fetch that follows yields no events.
C9_Original ==
    /\ lastCall.kind = "refresh-failed" =>
          /\ <<client[provider], persisted[provider]>> = lastCall.before
          /\ ~lastCall.threw
          /\ lastCall.returned = lastCall.before[1].accessToken
    /\ lastCall.kind = "events" /\ lastCall.refreshFailed => lastCall.events = <<>>

\* C9: a failed refresh leaves the tokens as they were, in memory and persisted.
\* When the token endpoint answered with an error status, getValidAccessToken()
\* returns the previous access token (when the request threw, it rejects and
\* getUpcomingEvents() returns []), and the event fetch that follows yields no
\* events if the provider does not accept that token.
C9_FailedRefreshKeepsTokens ==
    /\ lastCall.kind = "refresh-failed" =>
          /\ <<client[provider], persisted[provider]>> = lastCall.before
          /\ ~lastCall.threw => lastCall.returned = lastCall.before[1].accessToken
    /\ lastCall.kind = "events" /\ lastCall.refreshFailed /\ ~lastCall.accepted =>
          lastCall.events = <<>>

\* C9's case: the refresh of an expired token failed, and the events request sent
\* with that token has returned.
C9_Witness ==
    /\ lastCall.kind = "events"
    /\ lastCall.refreshFailed
    /\ ~lastCall.accepted
    /\ client[provider].accessToken # ""
    /\ now >= client[provider].expiryDate

\* C10: getUpcomingEvents() takes the client for connected exactly when the
\* persisted TokenSet holds a non-empty refresh token, and a client constructed at
\* a restart reports what the client before it did, with no refresh in flight.
C10_ConnectedIffPersistedRefreshToken ==
    /\ lastCall.kind = "getUpcomingEvents" =>
          (lastCall.proceeded <=>
              persisted[provider].present /\ persisted[provider].refresh_token # "")
    /\ lastCall.kind = "restart" =>
          /\ isConnected(provider) = lastCall.connected
          /\ Refreshing = 0

\* C10's case: a connected client whose access token has expired is constructed
\* anew.
C10_Witness ==
    /\ lastCall.kind = "restart"
    /\ lastCall.connected
    /\ isConnected(provider)
    /\ now > client[provider].expiryDate

\* C21: after every successful token exchange (a code exchange or a refresh) the
\* provider's persisted TokenSet is the client's access token, refresh token and
\* expiry; and between operations the token fields of a client are never other
\* than what is persisted (all empty when nothing is).
C21_PersistedIsInMemory ==
    /\ \A p \in Providers : client[p] = constructed(persisted[p])
    /\ (\/ lastCall.kind = "refreshed"
        \/ lastCall.kind = "settled" /\ lastCall.outcome = "success") =>
          /\ persisted[provider].present
          /\ persisted[provider].access_token = client[provider].accessToken
          /\ persisted[provider].refresh_token = client[provider].refreshToken
          /\ persisted[provider].expiry_date = client[provider].expiryDate
          /\ client[provider].accessToken # ""
          /\ client[provider].expiryDate = now + TokenLifetime

\* C21's case: a refresh has succeeded whose response carried a new refresh
\* token, on a client whose tokens came from a code exchange of this run.
C21_Witness ==
    /\ lastCall.kind = "refreshed"
    /\ lastCall.sent = "rt2"
    /\ lastCall.held = "rt2"
    /\ persisted[provider].access_token = "at2"

\* C22: at most one redirect listener of the provider is bound at any time:
\* authenticate() closes the listener an earlier attempt left before it binds its
\* own, the two providers' listeners use distinct fixed ports, and the browser is
\* opened on the authorization URL only by a call whose bind succeeded.
C22_OneListener ==
    /\ Cardinality({ i \in 1..MaxCalls : auths[i].server = "listening" }) <= 1
    /\ RedirectPort.google # RedirectPort.outlook
    /\ lastCall.kind = "authenticate" =>
          /\ lastCall.opened
          /\ auths[lastCall.call].server = "listening"
          /\ \A j \in 1..MaxCalls \ {lastCall.call} : auths[j].server # "listening"
    /\ (lastCall.kind = "settled" /\ lastCall.outcome = "listener-bind-error") =>
          /\ ~lastCall.opened
          /\ \A j \in 1..MaxCalls : auths[j].server # "listening"

\* C22's case: authenticate() was called while the listener of an earlier call
\* that is still pending was bound; that listener is closed and the new one bound.
C22_Witness ==
    /\ lastCall.kind = "authenticate"
    /\ lastCall.leftover # 0
    /\ auths[lastCall.leftover].state = "pending"
    /\ auths[lastCall.leftover].server = "closed"
    /\ auths[lastCall.call].server = "listening"

\* C23: an authenticate() call that is rejected leaves the provider's persisted
\* TokenSet and its connection status as they were: a TokenSet is written, and the
\* provider becomes connected, only in the step in which a call resolves
\* successfully, also when the timeout fires while the code exchange is in flight.
C23_RejectedCallPersistsNothing ==
    [][(\/ persisted'[provider].present /\ persisted'[provider] # persisted[provider]
        \/ isConnected(provider)' /\ ~isConnected(provider))
          => (lastCall'.kind = "settled" /\ lastCall'.outcome = "success")]_vars

\* C24: after disconnect() the provider stays not connected, its persisted
\* TokenSet stays erased and its client's token fields stay empty, as long as no
\* authenticate() succeeds: a token refresh or an event fetch that was in flight
\* when disconnect() was called writes nothing back when it completes.
C24_DisconnectedStaysErased ==
    [][~persisted[provider].present =>
          /\ ~persisted'[provider].present
          /\ ~isConnected(provider)'
          /\ client'[provider] = NoClientTokens]_vars

====
